---- MODULE Spec2Model ----
(***************************************************************************)
(* Model of bot.py: a play-by-post Discord bot whose session state lives   *)
(* in PostgreSQL (table game_state, row id = 1, and table characters) and  *)
(* is loaded, mutated and saved by coroutines running on one asyncio event *)
(* loop.  A coroutine runs without interruption between two `await`s, so   *)
(* every action below is the code between two suspension points of one     *)
(* handler.  call_ai_dm is a blocking call (no await), so it never         *)
(* separates two actions.                                                  *)
(***************************************************************************)
EXTENDS Integers, Sequences, FiniteSets, TLC

VARIABLES
    now,            \* time.time()
    game_state,     \* table game_state: <<>> (no row id = 1) or <<blob>>
    characters,     \* table characters: player_name -> data
    DEFAULT_STATE,  \* the module-level dict; its lists are shared by reference
    tasks,          \* the running coroutines: on_message handlers, timeout_checker
    started,        \* timeout_checker.start() has been called
    events,         \* number of messages and commands received so far
    calls,          \* number of narration-service calls made so far
    notices,        \* number of [TIMEOUT] notifications sent so far
    grants,         \* rounds of the extra turns granted since the last reset
    last            \* the handler that ran last, and how it ended

vars == <<now, game_state, characters, DEFAULT_STATE, tasks, started, events, calls, notices, grants, last>>

(***************************************************************************)
(* Program constants                                                       *)
(***************************************************************************)
TURN_TIMEOUT_HOURS == 24
TURN_TIMEOUT_SECONDS == TURN_TIMEOUT_HOURS * 3600
MAX_HISTORY == 20
DefaultScene == "The adventure begins..."

(***************************************************************************)
(* Bounds of the model                                                     *)
(***************************************************************************)
MaxEvents == 3          \* messages and commands in the concurrent specification
MaxClockSteps == 1      \* advances of the clock
MaxSeqMessages == 25    \* messages in the sequential specification
MaxSkillMessages == 2   \* messages in the skill-marker specification
MaxTurnEvents == 6      \* messages and commands in the turn-order specification
MaxLoadEvents == 2      \* messages and commands in the stored-session specification
MaxStoredTurn == 3      \* largest turn index of a stored session
MaxSaveEvents == 3      \* messages in the failing-save specification
MaxStallEvents == 4     \* messages in the stalled-turn specification

ClockStep == TURN_TIMEOUT_SECONDS

Names == {"Ava", "Bo"}
MoreNames == Names \cup {"Cy"}    \* the roster of the turn-order specification
Scenes == {"A storm gathers."}
Handlers == {"m1", "m2"}          \* concurrent on_message invocations
Earlier(t) == IF t = "m2" THEN {"m1"} ELSE {}
Checker == "timeout_checker"      \* the tasks.loop coroutine
Tasks == Handlers \cup {Checker}

(***************************************************************************)
(* Narration text.  A response is a sequence of tokens: plain text, the    *)
(* extra-turn marker, or a bracketed skill marker (well formed or not).    *)
(***************************************************************************)
Text == [tag |-> "text", name |-> "", sign |-> "", digits |-> <<>>]
ExtraTurnTag == [tag |-> "EXTRA TURN", name |-> "", sign |-> "", digits |-> <<>>]
SkillTag(name, digits) == [tag |-> "Skill", name |-> name, sign |-> "+", digits |-> digits]

Responses ==
    { <<Text>>,
      <<SkillTag("Stealth", <<2>>), Text, ExtraTurnTag>> }

\* call_ai_dm raised (service error or request timeout) instead of returning
ServiceError == <<[tag |-> "error", name |-> "", sign |-> "", digits |-> <<>>]>>

\* Responses of the skill-marker specification: repeated, competing,
\* zero-padded and malformed markers.
SkillResponses ==
    { <<Text>>,
      <<SkillTag("Stealth", <<2>>)>>,
      <<SkillTag("Stealth", <<1>>)>>,
      <<SkillTag("Stealth", <<1>>), Text, SkillTag("Stealth", <<3>>)>>,
      <<SkillTag("Lore", <<0, 2>>), SkillTag("Stealth", <<1>>)>>,
      <<[tag |-> "skill", name |-> "Stealth", sign |-> "+", digits |-> <<3>>]>>,
      <<[tag |-> "Skill", name |-> "Lore", sign |-> "-", digits |-> <<3>>]>>,
      <<[tag |-> "Skill", name |-> "Lore", sign |-> "+", digits |-> <<>>]>> }

(***************************************************************************)
(* Small helpers                                                           *)
(***************************************************************************)
Max(a, b) == IF a >= b THEN a ELSE b

InSeq(x, s) == \E i \in 1..Len(s) : s[i] = x

\* s[-n:]
LastN(s, n) == IF Len(s) <= n THEN s ELSE SubSeq(s, Len(s) - n + 1, Len(s))

\* dict.get(key, default)
Get(d, key, default) == IF key \in DOMAIN d THEN d[key] ELSE default

\* d[key] = value
Put(d, key, value) == [k \in DOMAIN d \cup {key} |-> IF k = key THEN value ELSE d[k]]

NoDict == [k \in {} |-> 0]

(***************************************************************************)
(* DEFAULT_STATE, _state_for_storage                                       *)
(***************************************************************************)
\* None is <<>> and a round number r is <<r>> in extra_turn_round.
DefaultState(t) ==
    [ players          |-> <<>>,
      current_turn     |-> 0,
      round            |-> 1,
      turn_start_time  |-> t,
      extra_turn_round |-> <<>>,
      characters       |-> NoDict,
      last_action      |-> <<>>,
      scene            |-> DefaultScene,
      history          |-> <<>> ]

\* _state_for_storage: the dict without its "characters" key
StateForStorage(state) ==
    [ players          |-> state.players,
      current_turn     |-> state.current_turn,
      round            |-> state.round,
      turn_start_time  |-> state.turn_start_time,
      extra_turn_round |-> state.extra_turn_round,
      last_action      |-> state.last_action,
      scene            |-> state.scene,
      history          |-> state.history ]

\* state["characters"] = characters
WithCharacters(blob, chars) ==
    [ players          |-> blob.players,
      current_turn     |-> blob.current_turn,
      round            |-> blob.round,
      turn_start_time  |-> blob.turn_start_time,
      extra_turn_round |-> blob.extra_turn_round,
      characters       |-> chars,
      last_action      |-> blob.last_action,
      scene            |-> blob.scene,
      history          |-> blob.history ]

BlankSheet == [attributes |-> NoDict, skills |-> NoDict, inventory |-> <<>>, notes |-> ""]

(***************************************************************************)
(* Turn manager                                                            *)
(***************************************************************************)
\* current_player: None is "".
current_player(state) ==
    IF state.players = <<>> THEN "" ELSE state.players[state.current_turn + 1]

advance_turn_clock_only(state, t) == [state EXCEPT !.turn_start_time = t]

advance_turn_no_guard(state, t) ==
    LET next == state.current_turn + 1 IN
    IF next >= Len(state.players)
    THEN [state EXCEPT !.current_turn = 0, !.round = @ + 1, !.turn_start_time = t]
    ELSE [state EXCEPT !.current_turn = next, !.turn_start_time = t]

advance_turn_no_round(state, t) ==
    IF Len(state.players) <= 1
    THEN [state EXCEPT !.turn_start_time = t]
    ELSE [state EXCEPT !.current_turn = (@ + 1) % Len(state.players),
                       !.turn_start_time = t]

advance_turn(state, t) ==
    IF Len(state.players) <= 1
    THEN [state EXCEPT !.turn_start_time = t]
    ELSE LET next == state.current_turn + 1 IN
         IF next >= Len(state.players)
         THEN [state EXCEPT !.current_turn = 0, !.round = @ + 1, !.turn_start_time = t]
         ELSE [state EXCEPT !.current_turn = next, !.turn_start_time = t]

(***************************************************************************)
(* update_skills_from_ai                                                   *)
(***************************************************************************)
\* int(value) of a string of decimal digits
RECURSIVE ParseInt(_)
ParseInt(digits) ==
    IF digits = <<>> THEN 0
    ELSE 10 * ParseInt(SubSeq(digits, 1, Len(digits) - 1)) + digits[Len(digits)]

\* the regular expression \[Skill (\w+) \+(\d+)\]
IsSkillMatch(tok) ==
    /\ tok.tag = "Skill"
    /\ tok.name # ""
    /\ tok.sign = "+"
    /\ Len(tok.digits) > 0

\* re.findall: the (skill, value) groups of the matches, in order
FindAll(ai_text) == SelectSeq(ai_text, IsSkillMatch)

SetSkillOverwrite(skills, skill, value) == Put(skills, skill, value)

\* char["skills"][skill] = max(char["skills"].get(skill, 0), value)
SetSkill(skills, skill, value) == Put(skills, skill, Max(Get(skills, skill, 0), value))

RECURSIVE ApplyMatches(_, _)
ApplyMatches(skills, matches) ==
    IF matches = <<>> THEN skills
    ELSE ApplyMatches(SetSkill(skills, Head(matches).name, ParseInt(Head(matches).digits)),
                      Tail(matches))

update_skills_from_ai(state, ai_text, player_name) ==
    IF player_name \notin DOMAIN state.characters
    THEN state
    ELSE [state EXCEPT !.characters[player_name].skills = ApplyMatches(@, FindAll(ai_text))]

HasExtraTurn(ai_text) == InSeq(ExtraTurnTag, ai_text)

(***************************************************************************)
(* State store: load_state, save_state                                     *)
(***************************************************************************)
RowAbsent == game_state = <<>>

LoadedStateNoHeal ==
    LET blob == IF RowAbsent THEN StateForStorage(DEFAULT_STATE) ELSE game_state[1]
    IN  WithCharacters(blob, characters)

\* The dict load_state returns.  A stored blob never holds a "characters"
\* key (save_state strips it), so the legacy branch is not taken, and it
\* holds every key of DEFAULT_STATE, so setdefault adds nothing.
LoadedState ==
    LET blob == IF RowAbsent THEN StateForStorage(DEFAULT_STATE) ELSE game_state[1]
        state == WithCharacters(blob, characters)
    IN  IF state.current_turn >= Len(state.players)
        THEN [state EXCEPT !.current_turn = 0]
        ELSE state

\* Table game_state after load_state: the defaults are inserted when the row
\* is absent.
StoreAfterLoad ==
    IF RowAbsent THEN <<StateForStorage(DEFAULT_STATE)>> ELSE game_state

\* save_state: upsert of the blob, then save_characters (upsert every sheet,
\* delete every other row), in one transaction.
SavedBlob(state) == <<StateForStorage(state)>>
SavedCharacters(state) == state.characters

\* save_state statement by statement.  The statements run on one connection
\* in one transaction: the upsert of the blob, the upsert of every sheet (in
\* the order `names` of the dict), the DELETE of every other row.
Store == [game_state |-> game_state, characters |-> characters]

Orders(S) ==
    { s \in [1..Cardinality(S) -> S] :
        \A i, j \in 1..Cardinality(S) : i # j => s[i] # s[j] }

Statements(state, names) ==
    <<[op |-> "upsert_state", blob |-> StateForStorage(state)]>>
    \o [i \in 1..Len(names) |->
          [op |-> "upsert_character", name |-> names[i], sheet |-> state.characters[names[i]]]]
    \o <<[op |-> "delete_characters", keep |-> DOMAIN state.characters]>>

Execute(store, stmt) ==
    IF stmt.op = "upsert_state"
    THEN [store EXCEPT !.game_state = <<stmt.blob>>]
    ELSE IF stmt.op = "upsert_character"
    THEN [store EXCEPT !.characters = Put(@, stmt.name, stmt.sheet)]
    ELSE [store EXCEPT !.characters =
            IF stmt.keep = {} THEN NoDict
            ELSE [k \in DOMAIN @ \cap stmt.keep |-> @[k]]]

RECURSIVE Run(_, _, _)
Run(store, stmts, n) ==
    IF n = 0 THEN store ELSE Execute(Run(store, stmts, n - 1), stmts[n])

\* fail_at = 0: every statement and the commit succeed.  fail_at = k > 0: the
\* k-th statement raises (the commit, past the last statement).
save_state_autocommit(store, state, names, fail_at) ==
    LET stmts == Statements(state, names) IN
    IF fail_at = 0 THEN Run(store, stmts, Len(stmts))
    ELSE Run(store, stmts, fail_at - 1)

\* lines 198-211: `with conn:` rolls the transaction back when its block
\* raises; nothing is committed before conn.commit().
save_state(store, state, names, fail_at) ==
    LET stmts == Statements(state, names) IN
    IF fail_at = 0 THEN Run(store, stmts, Len(stmts))
    ELSE store

(***************************************************************************)
(* Coroutines                                                              *)
(***************************************************************************)
\* shared_players / shared_history: state["players"] / state["history"] is
\* the very list object of DEFAULT_STATE (load_state found no row and took
\* a shallow copy of DEFAULT_STATE).
Idle(pc) ==
    [ pc             |-> pc,
      state          |-> DefaultState(0),
      shared_players |-> FALSE,
      shared_history |-> FALSE,
      player_name    |-> "",
      content        |-> 0,
      ai_response    |-> <<>>,
      extra_turn     |-> FALSE ]

\* The dict a coroutine holds, its shared lists read through the reference.
View(t) ==
    [ tasks[t].state EXCEPT
        !.players = IF tasks[t].shared_players THEN DEFAULT_STATE.players ELSE @,
        !.history = IF tasks[t].shared_history THEN DEFAULT_STATE.history ELSE @ ]

Event(op, player) == [op |-> op, player |-> player]

Init ==
    /\ now = 0
    /\ game_state = <<>>
    /\ characters = NoDict
    /\ DEFAULT_STATE = DefaultState(0)
    /\ tasks = [t \in Tasks |-> IF t = Checker THEN Idle("stopped") ELSE Idle("idle")]
    /\ started = FALSE
    /\ events = 0
    /\ calls = 0
    /\ notices = 0
    /\ grants = <<>>
    /\ last = Event("init", "")

(***************************************************************************)
(* on_message                                                              *)
(***************************************************************************)
AutoJoinFirst(state, player_name) ==
    IF InSeq(player_name, state.players)
    THEN state
    ELSE [state EXCEPT !.players = <<player_name>> \o @,
                       !.characters = Put(@, player_name, BlankSheet)]

AutoJoinNoSheet(state, player_name) ==
    IF InSeq(player_name, state.players)
    THEN state
    ELSE [state EXCEPT !.players = Append(@, player_name)]

\* lines 367-374: a first-seen author joins the roster with a blank sheet
AutoJoin(state, player_name) ==
    IF InSeq(player_name, state.players)
    THEN state
    ELSE [state EXCEPT !.players = Append(@, player_name),
                       !.characters = Put(@, player_name, BlankSheet)]

TurnViolationNever(state, player_name) == FALSE

\* line 377
TurnViolation(state, player_name) ==
    Len(state.players) > 1 /\ player_name # current_player(state)

AppendHistoryKeepOldest(history, entry) ==
    LET appended == Append(history, entry) IN
    IF Len(appended) > MAX_HISTORY THEN SubSeq(appended, 1, MAX_HISTORY) ELSE appended

\* lines 388-394
AppendHistory(history, entry) ==
    LET appended == Append(history, entry) IN
    IF Len(appended) > MAX_HISTORY THEN LastN(appended, MAX_HISTORY) ELSE appended

\* lines 398-400
ExtraTurn(state, ai_text) ==
    HasExtraTurn(ai_text) /\ ~(state.extra_turn_round = <<state.round>>)

\* lines 384-406: the response applied to the dict the handler holds
ApplyResponse(state, player_name, content, ai_text, t) ==
    LET entry == [player |-> player_name, action |-> content, response |-> ai_text]
        s1 == [state EXCEPT !.last_action = <<player_name, content, ai_text>>,
                            !.history = AppendHistory(@, entry)]
        s2 == update_skills_from_ai(s1, ai_text, player_name)
    IN  IF ExtraTurn(s2, ai_text)
        THEN [s2 EXCEPT !.turn_start_time = t, !.extra_turn_round = <<s2.round>>]
        ELSE advance_turn(s2, t)

\* lines 361-382, up to `await message.channel.send(ai_response)`: load, auto-join
\* (saved at once), turn check, narration call (which may raise).
\* Handler slots are interchangeable: a message takes the first idle one.
OnMessage(t, player_name, content, budget, outcomes) ==
    /\ tasks[t].pc = "idle"
    /\ \A u \in Earlier(t) : tasks[u].pc # "idle"
    /\ events < budget
    /\ LET loaded == LoadedState
           shared == RowAbsent
           is_new == ~InSeq(player_name, loaded.players)
           state  == AutoJoin(loaded, player_name)
       IN  /\ events' = events + 1
           /\ DEFAULT_STATE' =
                 IF shared THEN [DEFAULT_STATE EXCEPT !.players = state.players]
                 ELSE DEFAULT_STATE
           /\ game_state' = IF is_new THEN SavedBlob(state) ELSE StoreAfterLoad
           /\ characters' = IF is_new THEN SavedCharacters(state) ELSE characters
           /\ IF TurnViolation(state, player_name)
              THEN /\ last' = Event(IF is_new THEN "rejected_newcomer" ELSE "rejected", player_name)
                   /\ UNCHANGED <<tasks, calls>>
              ELSE /\ calls' = calls + 1
                   /\ \E ai_response \in outcomes :
                         IF ai_response = ServiceError
                         THEN /\ last' = Event(IF is_new THEN "failed_newcomer" ELSE "failed", player_name)
                              /\ UNCHANGED tasks
                         ELSE
                            /\ tasks' = [tasks EXCEPT ![t] =
                                  [ pc             |-> "send_response",
                                    state          |-> state,
                                    shared_players |-> shared,
                                    shared_history |-> shared,
                                    player_name    |-> player_name,
                                    content        |-> content,
                                    ai_response    |-> ai_response,
                                    extra_turn     |-> FALSE ]]
                            /\ last' = Event("narrated", "")
    /\ UNCHANGED <<now, started, notices, grants>>

\* lines 384-415, after the narration was sent: apply the response; with more
\* than one player the handler awaits the turn announcement before it saves.
OnMessageApply(t) ==
    /\ tasks[t].pc = "send_response"
    /\ LET me       == tasks[t]
           before   == View(t)
           state    == ApplyResponse(before, me.player_name, me.content, me.ai_response, now)
           extra    == ExtraTurn(before, me.ai_response)
           appended == Append(before.history, [player |-> me.player_name,
                                               action |-> me.content,
                                               response |-> me.ai_response])
           rebound  == Len(appended) > MAX_HISTORY
           announce == current_player(state) # "" /\ Len(state.players) > 1
       IN  /\ DEFAULT_STATE' =
                 IF me.shared_history THEN [DEFAULT_STATE EXCEPT !.history = appended]
                 ELSE DEFAULT_STATE
           /\ IF announce
              THEN /\ tasks' = [tasks EXCEPT ![t] =
                          [me EXCEPT !.pc = "send_next",
                                     !.state = state,
                                     !.shared_history = @ /\ ~rebound,
                                     !.extra_turn = extra]]
                   /\ last' = Event("applied", "")
                   /\ UNCHANGED <<game_state, characters, grants>>
              ELSE /\ game_state' = SavedBlob(state)
                   /\ characters' = SavedCharacters(state)
                   /\ grants' = IF extra THEN Append(grants, state.round) ELSE grants
                   /\ tasks' = [tasks EXCEPT ![t] = Idle("idle")]
                   /\ last' = Event(IF extra THEN "held" ELSE "advanced", "")
    /\ UNCHANGED <<now, started, events, calls, notices>>

\* line 415, after the turn announcement was sent
OnMessageSave(t) ==
    /\ tasks[t].pc = "send_next"
    /\ LET me == tasks[t]
           state == View(t)
       IN  /\ game_state' = SavedBlob(state)
           /\ characters' = SavedCharacters(state)
           /\ grants' = IF me.extra_turn THEN Append(grants, state.round) ELSE grants
           /\ last' = Event(IF me.extra_turn THEN "held" ELSE "advanced", "")
    /\ tasks' = [tasks EXCEPT ![t] = Idle("idle")]
    /\ UNCHANGED <<now, DEFAULT_STATE, started, events, calls, notices>>

(***************************************************************************)
(* timeout_checker                                                         *)
(***************************************************************************)
TimedOutAlways(state, t) == t - state.turn_start_time >= 0

TimedOutLate(state, t) == t - state.turn_start_time > TURN_TIMEOUT_SECONDS

\* lines 341-343: not (elapsed < TURN_TIMEOUT_SECONDS)
TimedOut(state, t) == ~(t - state.turn_start_time < TURN_TIMEOUT_SECONDS)

\* lines 336-347, up to `await channel.send(...)`.  The channel named
\* GAME_CHANNEL exists: the roster was filled by messages sent in it.
TimeoutCheck ==
    /\ tasks[Checker].pc = "sleeping"
    /\ LET state == LoadedState IN
       IF Len(state.players) <= 1
       THEN /\ game_state' = SavedBlob([state EXCEPT !.turn_start_time = now])
            /\ characters' = SavedCharacters(state)
            /\ last' = Event("tick_lone", "")
            /\ UNCHANGED <<tasks, notices>>
       ELSE IF ~TimedOut(state, now)
       THEN /\ game_state' = StoreAfterLoad
            /\ last' = Event("tick_early", "")
            /\ UNCHANGED <<characters, tasks, notices>>
       ELSE /\ game_state' = StoreAfterLoad
            /\ notices' = notices + 1
            /\ tasks' = [tasks EXCEPT ![Checker] =
                  [Idle("send_timeout") EXCEPT !.state = state,
                                               !.shared_players = RowAbsent,
                                               !.shared_history = RowAbsent,
                                               !.player_name = current_player(state)]]
            /\ last' = Event("tick_notify", "")
            /\ UNCHANGED characters
    /\ UNCHANGED <<now, DEFAULT_STATE, started, events, calls, grants>>

\* lines 348-349, after the notification was sent
TimeoutAdvance ==
    /\ tasks[Checker].pc = "send_timeout"
    /\ LET state == advance_turn(View(Checker), now) IN
       /\ game_state' = SavedBlob(state)
       /\ characters' = SavedCharacters(state)
    /\ tasks' = [tasks EXCEPT ![Checker] = Idle("sleeping")]
    /\ last' = Event("tick_skip", "")
    /\ UNCHANGED <<now, DEFAULT_STATE, started, events, calls, notices, grants>>

(***************************************************************************)
(* on_ready and the administrator commands.  Each runs from its load to    *)
(* its save without an await; the reply is sent after the save.  discord   *)
(* may deliver messages and commands before on_ready.                      *)
(***************************************************************************)
\* lines 353-356: timeout_checker.start(), load_state()
OnReady ==
    /\ ~started
    /\ started' = TRUE
    /\ tasks' = [tasks EXCEPT ![Checker] = Idle("sleeping")]
    /\ game_state' = StoreAfterLoad
    /\ last' = Event("on_ready", "")
    /\ UNCHANGED <<now, characters, DEFAULT_STATE, events, calls, notices, grants>>

\* lines 420-424
NextTurn(budget) ==
    /\ events < budget
    /\ events' = events + 1
    /\ LET state == advance_turn(LoadedState, now) IN
       /\ game_state' = SavedBlob(state)
       /\ characters' = SavedCharacters(state)
    /\ last' = Event("nextturn", "")
    /\ UNCHANGED <<now, DEFAULT_STATE, tasks, started, calls, notices, grants>>

\* lines 429-433
SetScene(text) ==
    /\ events < MaxEvents
    /\ events' = events + 1
    /\ LET state == [LoadedState EXCEPT !.scene = text] IN
       /\ game_state' = SavedBlob(state)
       /\ characters' = SavedCharacters(state)
    /\ last' = Event("setscene", "")
    /\ UNCHANGED <<now, DEFAULT_STATE, tasks, started, calls, notices, grants>>

FreshStateDeep(t) == DefaultState(t)

\* lines 450-451: DEFAULT_STATE.copy() is a shallow copy
FreshState(t) == [DEFAULT_STATE EXCEPT !.turn_start_time = t]

\* lines 449-453
ResetGame ==
    /\ events < MaxEvents
    /\ events' = events + 1
    /\ LET fresh_state == FreshState(now) IN
       /\ game_state' = SavedBlob(fresh_state)
       /\ characters' = SavedCharacters(fresh_state)
    /\ grants' = <<>>
    /\ last' = Event("resetgame", "")
    /\ UNCHANGED <<now, DEFAULT_STATE, tasks, started, calls, notices>>

\* time passes
Clock ==
    /\ now < MaxClockSteps * ClockStep
    /\ now' = now + ClockStep
    /\ UNCHANGED <<game_state, characters, DEFAULT_STATE, tasks, started, events, calls, notices, grants, last>>

(***************************************************************************)
(* Specifications                                                          *)
(***************************************************************************)
\* Every handler, concurrently.
Next ==
    \/ \E t \in Handlers, p \in Names :
          OnMessage(t, p, "I act.", MaxEvents, Responses \cup {ServiceError})
    \/ \E t \in Handlers : OnMessageApply(t)
    \/ \E t \in Handlers : OnMessageSave(t)
    \/ TimeoutCheck
    \/ TimeoutAdvance
    \/ OnReady
    \/ NextTurn(MaxEvents)
    \/ \E text \in Scenes : SetScene(text)
    \/ ResetGame
    \/ Clock

Spec == Init /\ [][Next]_vars

\* One player, one message at a time, the messages numbered: long histories.
SeqNext ==
    \/ OnMessage("m1", "Ava", events + 1, MaxSeqMessages, {<<Text>>})
    \/ OnMessageApply("m1")
    \/ Clock

SeqSpec == Init /\ [][SeqNext]_vars

\* Three players join (every narration call fails) and an administrator
\* advances the turn: every roster size up to three, every turn index.
TurnNext ==
    \/ \E p \in MoreNames : OnMessage("m1", p, "I act.", MaxTurnEvents, {ServiceError})
    \/ NextTurn(MaxTurnEvents)

TurnSpec == Init /\ [][TurnNext]_vars

\* One player, one message at a time: every shape of skill marker.
SkillNext ==
    \/ OnMessage("m1", "Ava", "I act.", MaxSkillMessages, SkillResponses)
    \/ OnMessageApply("m1")

SkillSpec == Init /\ [][SkillNext]_vars

(***************************************************************************)
(* What the claims speak of                                                *)
(***************************************************************************)
\* The persisted session, read without load_state.
Roster == IF game_state = <<>> THEN <<>> ELSE game_state[1].players
StoredTurn == IF game_state = <<>> THEN 0 ELSE game_state[1].current_turn

\* The roster once player p has joined it.
RosterWith(p) == IF InSeq(p, Roster) THEN Roster ELSE Append(Roster, p)

\* p acts out of turn: p is not the current participant of a roster that,
\* p included, has more than one participant.
OutOfTurn(p) ==
    /\ Len(RosterWith(p)) > 1
    /\ RosterWith(p)[StoredTurn + 1] # p

\* This step is the arrival of a game-channel message written by p.
Arrives(p) ==
    /\ events' = events + 1
    /\ \/ last'.player = p
       \/ \E t \in Handlers : /\ tasks[t].pc = "idle"
                              /\ tasks'[t].pc = "send_response"
                              /\ tasks'[t].player_name = p

\* A handler that has loaded the session and has not yet saved it.
InFlight(t) == tasks[t].pc \in {"send_response", "send_next", "send_timeout"}

\* C1: between the load and the final save of one handler, no other handler
\* loads or saves the session: while a handler is suspended in its cycle,
\* no other handler runs and the store is not written.
C1_OneCycleAtATime ==
    [][\A t \in Tasks :
          (InFlight(t) /\ tasks'[t] = tasks[t])
             => (game_state' = game_state /\ characters' = characters /\ last' = last)]_vars

\* C2 as stated: an out-of-turn action makes no narration call and leaves
\* the persisted session exactly as it was.
C2_RejectedChangesNothing ==
    [][\A p \in Names :
          (Arrives(p) /\ OutOfTurn(p))
             => (calls' = calls /\ game_state' = game_state /\ characters' = characters)]_vars

\* C2 amended: an out-of-turn action makes no narration call, starts no
\* handler cycle, and leaves the persisted session as it was except that a
\* first-time actor has joined the end of the roster with a blank sheet.
C2_RejectedOnlyJoins ==
    [][\A p \in Names :
          (Arrives(p) /\ OutOfTurn(p))
             => /\ calls' = calls
                /\ tasks' = tasks
                /\ game_state' = <<[game_state[1] EXCEPT !.players = RosterWith(p)]>>
                /\ characters' = IF InSeq(p, Roster) THEN characters
                                 ELSE Put(characters, p, BlankSheet)]_vars

\* A first-time actor was rejected, and so was a roster member.
C2_Witness ==
    /\ last.op = "rejected_newcomer"
    /\ Len(Roster) > 1
    /\ last.player \in DOMAIN characters

\* This step is an action whose narration call raised: the call was made and
\* no response came back to apply.
NarrationFails == calls' = calls + 1 /\ tasks' = tasks

\* C3: a failed narration call commits no state mutation, whoever acts.
C3_FailedCommitsNothing ==
    [][NarrationFails => (game_state' = game_state /\ characters' = characters)]_vars

\* C4: after resetgame the persisted session is the empty default.
C4_ResetClearsAll ==
    last.op = "resetgame" =>
        /\ Roster = <<>>
        /\ characters = NoDict
        /\ game_state[1].history = <<>>
        /\ game_state[1].scene = DefaultScene
        /\ game_state[1].current_turn = 0
        /\ game_state[1].round = 1

\* C5: between two resets no round sees two actions end with the turn held
\* by an extra-turn grant.
C5_OneGrantPerRound ==
    \A i, j \in 1..Len(grants) : i # j => grants[i] # grants[j]

\* C6: on a roster of size 0 or 1 advance_turn changes nothing but the
\* turn-start time.
C6_LoneAdvance ==
    LET state == LoadedState
        after == advance_turn(state, now + 1)
    IN  Len(state.players) <= 1 =>
            /\ after.current_turn = state.current_turn
            /\ after.round = state.round
            /\ after.turn_start_time = now + 1
            /\ after = [state EXCEPT !.turn_start_time = now + 1]

\* advance_turn was called on a roster of one.
C6_Witness ==
    /\ last.op = "nextturn"
    /\ Len(Roster) = 1
    /\ game_state[1].round = 1

RECURSIVE AdvanceTimes(_, _, _)
AdvanceTimes(state, n, t) ==
    IF n = 0 THEN state ELSE advance_turn(AdvanceTimes(state, n - 1, t), t)

\* C7: on a roster of N > 1, N calls of advance_turn bring current_turn back
\* and add exactly 1 to round, and the only call that changes round is the
\* one that wraps current_turn from N - 1 to 0.
C7_FullCycle ==
    LET state == LoadedState
        N == Len(state.players)
    IN  N > 1 =>
            /\ AdvanceTimes(state, N, now).current_turn = state.current_turn
            /\ AdvanceTimes(state, N, now).round = state.round + 1
            /\ \A k \in 0..(N - 1) :
                  LET before == AdvanceTimes(state, k, now)
                      after  == advance_turn(before, now)
                  IN  IF before.current_turn = N - 1
                      THEN after.current_turn = 0 /\ after.round = before.round + 1
                      ELSE /\ after.current_turn = before.current_turn + 1
                           /\ after.round = before.round

\* nextturn has just wrapped the turn of a roster of three.
C7_Witness ==
    /\ last.op = "nextturn"
    /\ Len(Roster) = 3
    /\ game_state[1].current_turn = 0
    /\ game_state[1].round = 2

\* Number of messages handled to the end (sequential specification).
Handled == IF tasks["m1"].pc = "idle" THEN events ELSE events - 1

\* C8: the persisted history never exceeds MAX_HISTORY entries and holds the
\* most recent entries, oldest first: after n numbered messages it holds the
\* messages n - 19 .. n (6 .. 25 after 25 messages).
C8_HistoryWindow ==
    LET history == IF game_state = <<>> THEN <<>> ELSE game_state[1].history
        n == Handled
    IN  /\ Len(history) <= MAX_HISTORY
        /\ Len(history) = IF n <= MAX_HISTORY THEN n ELSE MAX_HISTORY
        /\ \A i \in 1..Len(history) : history[i].action = n - Len(history) + i

\* 25 messages were handled, and the history is the entries 6 .. 25.
C8_Witness ==
    /\ Handled = 25
    /\ tasks["m1"].pc = "idle"
    /\ Len(game_state[1].history) = 20
    /\ game_state[1].history[1].action = 6
    /\ game_state[1].history[20].action = 25

\* The values the well-formed skill markers of a response give to skill k.
SkillNames == {"Stealth", "Lore"}
MarkedValues(ai_text, k) ==
    { ParseInt(ai_text[i].digits) :
        i \in { j \in 1..Len(ai_text) :
                  /\ ai_text[j].tag = "Skill" /\ ai_text[j].sign = "+"
                  /\ ai_text[j].name = k /\ ai_text[j].digits # <<>> } }

SetMax(S) == CHOOSE x \in S : \A y \in S : y <= x

\* C9: applying the markers of a response never lowers a skill; a skill with
\* a well-formed marker becomes the maximum of its previous value (or 0) and
\* the marked values, every other skill is unchanged; +2 then +1 leaves 2.
C9_SkillsMonotonic ==
    [][\A t \in Handlers :
          (tasks[t].pc = "send_response" /\ tasks'[t].pc = "idle"
             /\ tasks[t].player_name \in DOMAIN characters)
          => LET who    == tasks[t].player_name
                 before == characters[who].skills
                 after  == characters'[who].skills
                 text   == tasks[t].ai_response
             IN  /\ DOMAIN after =
                       DOMAIN before \cup {k \in SkillNames : MarkedValues(text, k) # {}}
                 /\ \A k \in DOMAIN after :
                       /\ after[k] >= Get(before, k, 0)
                       /\ after[k] = SetMax(MarkedValues(text, k) \cup {Get(before, k, 0)})
                 /\ \A k \in DOMAIN before :
                       MarkedValues(text, k) = {} => after[k] = before[k]
                 /\ (before = ("Stealth" :> 2) /\ text = <<SkillTag("Stealth", <<1>>)>>)
                       => after = ("Stealth" :> 2)]_vars

\* [Skill Stealth +2] then [Skill Stealth +1] were applied, and 2 is stored.
C9_Witness ==
    /\ game_state # <<>>
    /\ tasks["m1"].pc = "idle"
    /\ Len(game_state[1].history) = 2
    /\ game_state[1].history[1].response = <<SkillTag("Stealth", <<2>>)>>
    /\ game_state[1].history[2].response = <<SkillTag("Stealth", <<1>>)>>
    /\ characters["Ava"].skills = ("Stealth" :> 2)

\* This step is a tick of timeout_checker.
TickOps == {"tick_lone", "tick_early", "tick_notify"}
Ticks == tasks[Checker].pc = "sleeping" /\ now' = now /\ last'.op \in TickOps /\ events' = events

C11_FirstActor ==
    [][\A t \in Handlers :
          /\ (/\ Roster = <<>>
              /\ tasks[t].pc = "idle" /\ tasks'[t].pc = "send_response")
             => LET p == tasks'[t].player_name IN
                /\ calls' = calls + 1
                /\ tasks'[t].state.players = <<p>>
                /\ game_state'[1].players = <<p>>
                /\ game_state'[1].current_turn = 0
                /\ game_state'[1].round = IF game_state = <<>> THEN 1 ELSE game_state[1].round
                /\ characters' = Put(characters, p, BlankSheet)
          /\ (/\ tasks[t].pc = "send_response" /\ tasks'[t] # tasks[t]
              /\ View(t).players = <<tasks[t].player_name>>)
             => /\ tasks'[t].pc = "idle"
                /\ calls' = calls
                /\ game_state'[1].players = <<tasks[t].player_name>>
                /\ game_state'[1].current_turn = 0
                /\ game_state'[1].round = tasks[t].state.round]_vars

\* Ava's action was the first of the session and was handled to the end.
C11_Witness ==
    /\ last.op = "advanced"
    /\ events = 1 /\ calls = 1
    /\ Roster = <<"Ava">>
    /\ game_state[1].current_turn = 0 /\ game_state[1].round = 1
    /\ Len(game_state[1].history) = 1
    /\ characters = ("Ava" :> BlankSheet)

\* C12: a stored character sheet stays in the character table after every
\* event other than resetgame: no step but a reset removes a row.
C12_SheetsKept ==
    [][last'.op # "resetgame" => \A p \in DOMAIN characters : p \in DOMAIN characters']_vars

\* C13: the persisted round starts at 1 and no step other than resetgame
\* lowers it.
StoredRound == IF game_state = <<>> THEN 1 ELSE game_state[1].round

C13_RoundNeverDecreases ==
    [][last'.op # "resetgame" => StoredRound' >= StoredRound]_vars

\* The session row as another writer (an earlier deployment, an operator)
\* may have left it: any roster, any turn index, a sheet for every member.
StoredRosters == {<<>>, <<"Ava">>, <<"Ava", "Bo">>}
StoredBlobs ==
    { [StateForStorage(DefaultState(0)) EXCEPT !.players = r, !.current_turn = i] :
        r \in StoredRosters, i \in 0..MaxStoredTurn }
SheetsFor(players) == [p \in {players[i] : i \in 1..Len(players)} |-> BlankSheet]

LoadInit ==
    /\ now = 0
    /\ \/ game_state = <<>> /\ characters = NoDict
       \/ \E blob \in StoredBlobs :
             game_state = <<blob>> /\ characters = SheetsFor(blob.players)
    /\ DEFAULT_STATE = DefaultState(0)
    /\ tasks = [t \in Tasks |-> IF t = Checker THEN Idle("stopped") ELSE Idle("idle")]
    /\ started = FALSE
    /\ events = 0
    /\ calls = 0
    /\ notices = 0
    /\ grants = <<>>
    /\ last = Event("init", "")

\* Every handler that moves the turn, concurrently, on any stored session.
LoadNext ==
    \/ \E t \in Handlers, p \in Names :
          OnMessage(t, p, "I act.", MaxLoadEvents, {<<Text>>, ServiceError})
    \/ \E t \in Handlers : OnMessageApply(t)
    \/ \E t \in Handlers : OnMessageSave(t)
    \/ TimeoutCheck
    \/ TimeoutAdvance
    \/ OnReady
    \/ NextTurn(MaxLoadEvents)
    \/ Clock

LoadSpec == LoadInit /\ [][LoadNext]_vars

\* 0 <= current_turn < len(players), or current_turn = 0 on an empty roster
InRange(state) ==
    IF state.players = <<>> THEN state.current_turn = 0
    ELSE 0 <= state.current_turn /\ state.current_turn < Len(state.players)

\* C14: what load_state returns is in range, a stored index at or past the
\* end of the roster being loaded as 0 and any other as stored; and what
\* save_state writes is in range.
C14_TurnInRange ==
    /\ [](/\ InRange(LoadedState)
          /\ game_state # <<>> =>
                LoadedState.current_turn =
                   IF game_state[1].current_turn >= Len(game_state[1].players)
                   THEN 0 ELSE game_state[1].current_turn)
    /\ [][game_state' # game_state => InRange(game_state'[1])]_vars

\* A stored index past the end of a roster of two was loaded as 0: Ava's
\* action was accepted, and her handler is about to save the turn as 1.
C14_Witness ==
    /\ tasks["m1"].pc = "send_next"
    /\ tasks["m1"].player_name = "Ava"
    /\ tasks["m1"].state.current_turn = 1
    /\ Roster = <<"Ava", "Bo">>
    /\ game_state[1].current_turn = 3

\* C15: a first-time actor who joins a non-empty roster is appended at its
\* end with a sheet; the stored turn index and the current participant are
\* the same before and after the join.
C15_JoinKeepsTurn ==
    [][\A p \in MoreNames :
          (Arrives(p) /\ Roster # <<>> /\ ~InSeq(p, Roster))
             => /\ game_state'[1].players = Append(Roster, p)
                /\ game_state'[1].current_turn = game_state[1].current_turn
                /\ current_player(game_state'[1]) = current_player(game_state[1])
                /\ p \in DOMAIN characters']_vars

\* Cy joined the roster of Ava and Bo while it was Bo's turn.
C15_Witness ==
    /\ last = Event("rejected_newcomer", "Cy")
    /\ Roster = <<"Ava", "Bo", "Cy">>
    /\ game_state[1].current_turn = 1
    /\ current_player(game_state[1]) = "Bo"

StoredScene == IF game_state = <<>> THEN DefaultScene ELSE game_state[1].scene

\* C16: the persisted scene changes only through setscene or resetgame: no
\* step of an action handler or of the timeout checker changes it.
C16_SceneOnlyBySetScene ==
    [][last'.op \notin {"setscene", "resetgame"} => StoredScene' = StoredScene]_vars

\* Responses of the failing-save specification: each carries a skill marker.
SaveResponses ==
    { <<SkillTag("Stealth", <<2>>), Text>>,
      <<SkillTag("Stealth", <<2>>), Text, ExtraTurnTag>> }

\* The dict a handler is about to save on line 415.
FinalState(t) ==
    IF tasks[t].pc = "send_response"
    THEN ApplyResponse(View(t), tasks[t].player_name, tasks[t].content,
                       tasks[t].ai_response, now)
    ELSE View(t)

\* line 415 raising: a statement of save_state, or its commit, fails.  The
\* exception ends the handler; the lists it shares with DEFAULT_STATE keep
\* what it appended.
FailedSave(t) ==
    /\ tasks[t].pc \in {"send_response", "send_next"}
    /\ LET me       == tasks[t]
           state    == FinalState(t)
           appended == Append(View(t).history, [player |-> me.player_name,
                                                action |-> me.content,
                                                response |-> me.ai_response])
       IN  /\ me.pc = "send_response" =>
                 ~(current_player(state) # "" /\ Len(state.players) > 1)
           /\ DEFAULT_STATE' =
                 IF me.pc = "send_response" /\ me.shared_history
                 THEN [DEFAULT_STATE EXCEPT !.history = appended]
                 ELSE DEFAULT_STATE
           /\ \E names \in Orders(DOMAIN state.characters) :
              \E fail_at \in 1..(Len(Statements(state, names)) + 1) :
                 LET store == save_state(Store, state, names, fail_at) IN
                 /\ game_state' = store.game_state
                 /\ characters' = store.characters
           /\ last' = Event("save_failed", me.player_name)
    /\ tasks' = [tasks EXCEPT ![t] = Idle("idle")]
    /\ UNCHANGED <<now, started, events, calls, notices, grants>>

\* Two players, one message at a time, every final save failing or not.
SaveNext ==
    \/ \E p \in Names : OnMessage("m1", p, "I act.", MaxSaveEvents, SaveResponses)
    \/ OnMessageApply("m1")
    \/ OnMessageSave("m1")
    \/ FailedSave("m1")

SaveSpec == Init /\ [][SaveNext]_vars

\* C17: the final save of an action writes the session blob and the
\* character table together or not at all: when save_state fails the store
\* is what it was, and when it succeeds the store holds the handler's blob
\* and its sheets, which is what the statements of its one transaction,
\* run to the commit, leave.
C17_SaveAllOrNothing ==
    /\ [][\A t \in Handlers :
             (tasks[t].pc \in {"send_response", "send_next"} /\ tasks'[t].pc = "idle")
             => LET state == FinalState(t) IN
                IF last'.op = "save_failed"
                THEN game_state' = game_state /\ characters' = characters
                ELSE /\ game_state' = <<StateForStorage(state)>>
                     /\ characters' = state.characters
                     /\ characters'[tasks[t].player_name].skills # NoDict]_vars
    /\ [](\A t \in Handlers :
             InFlight(t) =>
                \A names \in Orders(DOMAIN View(t).characters) :
                   save_state(Store, View(t), names, 0) =
                      [game_state |-> SavedBlob(View(t)),
                       characters |-> SavedCharacters(View(t))])

\* Ava's accepted action on the roster of Ava and Bo, with a skill marker
\* and a turn advance, failed to save (as her first one had): it is still
\* her turn, the history is empty and she has no skill.
C17_Witness ==
    /\ last = Event("save_failed", "Ava")
    /\ events = 3 /\ calls = 2
    /\ Roster = <<"Ava", "Bo">>
    /\ game_state[1].current_turn = 0
    /\ game_state[1].history = <<>>
    /\ characters["Ava"].skills = NoDict

\* C18: a tick that finds at most one participant, or a turn younger than
\* the threshold, sends no notification, makes no narration call and starts
\* no skip; with more than one participant it writes nothing, and with at
\* most one it saves what is stored with only turn_start_time set to now.
C18_QuietTick ==
    [][(/\ Ticks
        /\ \/ Len(Roster) <= 1
           \/ now - game_state[1].turn_start_time < TURN_TIMEOUT_SECONDS)
       => LET stored == IF RowAbsent THEN StateForStorage(DEFAULT_STATE) ELSE game_state[1] IN
          /\ notices' = notices /\ calls' = calls
          /\ tasks' = tasks
          /\ characters' = characters
          /\ IF Len(Roster) > 1
             THEN game_state' = game_state
             ELSE game_state' = <<[stored EXCEPT !.turn_start_time = now]>>]_vars

\* A tick found Ava alone and reset her clock; Bo joined; the next tick
\* found the turn younger than the threshold.
C18_Witness ==
    /\ last.op = "tick_early"
    /\ events = 2
    /\ Roster = <<"Ava", "Bo">>
    /\ now = ClockStep
    /\ game_state[1].turn_start_time = now
    /\ notices = 0

\* Up to three players write in the game channel while no narration ever
\* succeeds, so that no action is accepted to its end; the checker ticks
\* and time advances.  The loop of timeout_checker runs every five minutes
\* once on_ready has started it, and its sends complete: weak fairness.
StallNext ==
    \/ \E p \in MoreNames : OnMessage("m1", p, "I act.", MaxStallEvents, {ServiceError})
    \/ TimeoutCheck
    \/ TimeoutAdvance
    \/ OnReady
    \/ Clock

StallSpec ==
    /\ Init /\ [][StallNext]_vars
    /\ WF_vars(OnReady) /\ WF_vars(Clock)
    /\ WF_vars(TimeoutCheck) /\ WF_vars(TimeoutAdvance)

\* It is p's turn on a roster of more than one, and the turn began early
\* enough for the clock of the model to reach its timeout.
Stalled(p) ==
    /\ Len(Roster) > 1
    /\ current_player(game_state[1]) = p
    /\ game_state[1].turn_start_time + TURN_TIMEOUT_SECONDS <= MaxClockSteps * ClockStep

\* The turn is with the participant who follows p on the roster.
PassedFrom(p) ==
    /\ Len(Roster) > 1
    /\ Roster[((StoredTurn + Len(Roster) - 1) % Len(Roster)) + 1] = p

\* C19: a stalled turn is eventually resolved: while the current participant
\* completes no action, whoever else writes or joins, the turn eventually
\* passes to the participant after them.
C19_StallResolved ==
    \A p \in MoreNames : Stalled(p) ~> PassedFrom(p)

\* Cy joined while Ava stalled; the tick skipped Ava and it is Bo's turn.
C19_Witness ==
    /\ last.op = "tick_skip"
    /\ Roster = <<"Ava", "Bo", "Cy">>
    /\ current_player(game_state[1]) = "Bo"
    /\ notices = 1

\* C20: in every persisted state every participant has a character sheet.
C20_RosterHasSheets ==
    \A i \in 1..Len(Roster) : Roster[i] \in DOMAIN characters

====
